---- MODULE Spec2Model ----
(***************************************************************************)
(* A model of shortcake: the value-resolution graph (size.py, render.py),  *)
(* the easing sequence, the Anchor conversion, Container packing and the   *)
(* grid helper, the curves and oscillate of interpolate.py, and the Poller.*)
(*                                                                         *)
(* Numbers.  Easing values are origin + frac * (target - origin) with      *)
(* frac = elapsed / period.  Origins and targets are multiples of 4 and    *)
(* periods are 1 or 2 in absolute value, so every interpolated value (also *)
(* through in_quad) is an integer and \div below is exact.                 *)
(* One call of a method reads the clock at one instant `now`.              *)
(***************************************************************************)
EXTENDS Integers, Sequences, FiniteSets, TLC

VARIABLES nodes, seq, built, now, res, box, kids, out, cells, children, gres,
          calc, poller

valueVars == <<nodes, seq, built, now, res>>
layoutVars == <<box, kids, out>>
gridVars == <<cells, children, gres>>
vars == <<nodes, seq, built, now, res, box, kids, out, cells, children, gres,
          calc, poller>>

\* ---------------------------------------------------------------- bounds
NumNodes == 3
MaxTime == 3
MaxQueue == 2

Periods == {1, 2}
Targets == {4, 8}
Curves == {"none", "in_quad"}

NoParent == 0
Unset == 0 - 1

Min(a, b) == IF a < b THEN a ELSE b
Max(a, b) == IF a > b THEN a ELSE b

\* ---------------------------------------------------------------- results
Ok(v) == [ok |-> TRUE, val |-> v, err |-> "none"]
Raise(e) == [ok |-> FALSE, val |-> 0, err |-> e]

\* ---------------------------------------------------------------- size.py
Absolute_get(s, parent_size) == s.n

Relative_get(s, parent_size) == s.n * parent_size

Percentage_getNoHundred(s, parent_size) == s.n * parent_size

Percentage_get(s, parent_size) == s.n * parent_size * 100

Offset_get(s, parent_size) == s.n + parent_size

\* the callable n of a ParentFunction: lambda parent_size, parent: -parent_size
ParentFunction_get(s, parent_size) == 0 - parent_size

\* the callable n of a TimeFunction: lambda dt: dt
TimeFunction_get(s, t) == (t - s.start_time) + s.offset

lerp(a, b, f) == ((f[1] * (b - a)) \div f[2]) + a

in_quad(f) ==
    LET x == Max(Min(f[1], f[2]), 0)
    IN  <<x * x, f[2] * f[2]>>

\* Easing.is_expired: the flag it caches and returns
is_expired(e, t) == e.expired \/ t >= e.start_time + e.period

\* Easing.get_frac: (time.time() - start_time) / period as a fraction with
\* a positive denominator; the division raises when period is 0
get_frac(e, t) ==
    LET dt == t - e.start_time
        num == IF e.period < 0 THEN 0 - dt ELSE dt
        den == IF e.period < 0 THEN 0 - e.period ELSE e.period
    IN  IF e.period = 0 THEN Raise("ZeroDivisionError")
        ELSE IF e.clamp THEN Ok(<<Min(Max(num, 0), den), den>>)
        ELSE Ok(<<num, den>>)

value_at_frac(e, f) ==
    LET g == IF e.easing = "none" THEN f ELSE in_quad(f)
    IN  lerp(e.n, e.target, g)

\* Easing.get with the expired flag cached on the way
Easing_getCaching(e, t) ==
    LET frac == get_frac(e, t)
    IN  [ok |-> frac.ok, err |-> frac.err,
         val |-> IF frac.ok THEN value_at_frac(e, frac.val) ELSE 0,
         self |-> [e EXCEPT !.expired = is_expired(e, t)]]

\* Easing.get: the value or the exception, and self as the call leaves it
Easing_get(e, t) ==
    LET frac == get_frac(e, t)
    IN  [ok |-> frac.ok, err |-> frac.err,
         val |-> IF frac.ok THEN value_at_frac(e, frac.val) ELSE 0,
         self |-> e]

\* what the loop does to a candidate that follows an expired one (lines 210-212)
Rebase(c, s, t) == [c EXCEPT !.start = t, !.n = s.n]

\* what popping an expired candidate does to the sequence (lines 218-220)
RetireKeepN(s, c) ==
    [s EXCEPT !.queue = SubSeq(s.queue, 1, Len(s.queue) - 1)]

Retire(s, c) ==
    [n |-> value_at_frac(c, <<1, 1>>),
     queue |-> SubSeq(s.queue, 1, Len(s.queue) - 1)]

\* ContinousEasingSequence.get: the while loop.  retired collects the
\* end_value of every entry popped by this call; handoff tells that the
\* entry returned became the top in this call.
RECURSIVE SequenceLoop(_, _, _, _)
SequenceLoop(s, any_easings_expired, t, retired) ==
    IF s.queue = <<>>
    THEN [ok |-> TRUE, err |-> "none", val |-> s.n, self |-> s,
          retired |-> retired, handoff |-> FALSE]
    ELSE LET top == Len(s.queue)
             c0 == s.queue[top]
             c1 == IF any_easings_expired THEN Rebase(c0, s, t) ELSE c0
             candidate == [c1 EXCEPT !.expired = is_expired(c1, t)]
         IN  IF candidate.expired
             THEN SequenceLoop(Retire(s, candidate), TRUE, t,
                               Append(retired, value_at_frac(candidate, <<1, 1>>)))
             ELSE LET g == Easing_get(candidate, t)
                  IN  [ok |-> g.ok, err |-> g.err, val |-> g.val,
                       self |-> [s EXCEPT !.queue[top] = g.self],
                       retired |-> retired,
                       handoff |-> any_easings_expired]

ContinousEasingSequence_get(s, t) == SequenceLoop(s, FALSE, t, <<>>)

\* ---------------------------------------------------------------- render.py
\* the isinstance tuple of line 54 with Offset left out
ParentKindsNoOffset == {"Relative", "Percentage", "ParentFunction"}

ParentKinds == {"Relative", "Percentage", "ParentFunction", "Offset"}

parent(m) == nodes[m].parent

\* gotten.get(parent.get(attr), parent) of a parent-dependent Size
Size_get(g, parent_size) ==
    CASE g.kind = "Relative" -> Relative_get(g, parent_size)
      [] g.kind = "Percentage" -> Percentage_get(g, parent_size)
      [] g.kind = "Offset" -> Offset_get(g, parent_size)
      [] g.kind = "ParentFunction" -> ParentFunction_get(g, parent_size)

\* the branch taken when parent is None or lacks the attribute (lines 56-61)
\* the same branch resolving against a parent value of 0 instead of raising
OnMissingParentDefault(g) == Ok(Size_get(g, 0))

OnMissingParent(g) == Raise("ValueError")

\* Renderable.get(attr) on node m in store st = [nodes, seq] at time t.
\* touched is the set of nodes whose stored attribute the call read.
RECURSIVE Renderable_get(_, _, _)
Renderable_get(m, st, t) ==
    LET g == st.nodes[m].size
        Out(r, s, seen) == [ok |-> r.ok, val |-> r.val, err |-> r.err,
                            st |-> s, touched |-> seen]
    IN  IF g.kind = "absent"
        THEN Out(Raise("AttributeError"), st, {})
        ELSE IF g.kind = "plain"
        THEN Out(Ok(g.n), st, {m})
        ELSE IF g.kind \in ParentKinds
        THEN LET p == st.nodes[m].parent
             IN  IF p = NoParent
                 THEN Out(OnMissingParent(g), st, {m})
                 ELSE \* hasattr(parent, attr) runs parent.get(attr) once
                      LET h == Renderable_get(p, st, t)
                      IN  IF ~h.ok /\ h.err = "AttributeError"
                          THEN Out(OnMissingParent(g), h.st, {m})
                          ELSE IF ~h.ok
                          THEN Out(h, h.st, {m} \cup h.touched)
                          ELSE LET r == Renderable_get(p, h.st, t)
                               IN  IF ~r.ok
                                   THEN Out(r, r.st, {m} \cup r.touched)
                                   ELSE Out(Ok(Size_get(g, r.val)), r.st,
                                            {m} \cup r.touched)
        ELSE IF g.kind = "Absolute"
        THEN Out(Ok(Absolute_get(g, 0)), st, {m})
        ELSE IF g.kind = "TimeFunction"
        THEN Out(Ok(TimeFunction_get(g, t)), st, {m})
        ELSE IF g.kind = "Easing"
        THEN LET e == Easing_get(g, t)
             IN  Out(e, [st EXCEPT !.nodes[m].size = e.self], {m})
        ELSE LET q == ContinousEasingSequence_get(st.seq, t)
             IN  Out(q, [st EXCEPT !.seq = q.self], {m})

\* ---------------------------------------------------------------- objects
MkEasing(n, target, period, curve, clamp) ==
    [kind |-> "Easing", n |-> n, target |-> target, period |-> period,
     start_time |-> 0, easing |-> curve, clamp |-> clamp,
     expired |-> FALSE, start |-> Unset]

QueueEntries ==
    {MkEasing(0, tg, p, c, cl) : tg \in Targets, p \in Periods, c \in Curves,
                                 cl \in BOOLEAN}

Queues == UNION {[1..k -> QueueEntries] : k \in 0..MaxQueue}

\* the stored values a node's attribute is drawn from
StoredValues ==
    {[kind |-> "absent"],
     [kind |-> "plain", n |-> 5],
     [kind |-> "Absolute", n |-> 3],
     [kind |-> "Relative", n |-> 2],
     [kind |-> "Percentage", n |-> 2],
     [kind |-> "Offset", n |-> 3],
     [kind |-> "ParentFunction"],
     [kind |-> "TimeFunction", start_time |-> 0, offset |-> 1],
     MkEasing(0, 8, 2, "in_quad", TRUE),
     [kind |-> "Sequence"]}

NodeIds == 1..NumNodes

DefaultNodes ==
    [m \in NodeIds |-> [parent |-> m - 1, size |-> [kind |-> "Absolute", n |-> 3]]]

NoRes == [op |-> "init", node |-> 0, ok |-> TRUE, val |-> 0, err |-> "none",
          touched |-> {}, retired |-> <<>>, handoff |-> FALSE]

\* ---------------------------------------------------------------- actions
\* time passes
Tick ==
    /\ now < MaxTime
    /\ now' = now + 1
    /\ res' = [NoRes EXCEPT !.op = "tick"]
    /\ UNCHANGED <<nodes, seq, built>>
    /\ UNCHANGED layoutVars
    /\ UNCHANGED gridVars
    /\ UNCHANGED <<calc, poller>>

\* node.get("size")
Resolve(m) ==
    LET r == Renderable_get(m, [nodes |-> nodes, seq |-> seq], now)
    IN  /\ nodes' = r.st.nodes
        /\ seq' = r.st.seq
        /\ res' = [NoRes EXCEPT !.op = "get", !.node = m, !.ok = r.ok,
                                !.val = r.val, !.err = r.err,
                                !.touched = r.touched]
        /\ UNCHANGED <<built, now>>
        /\ UNCHANGED layoutVars
        /\ UNCHANGED gridVars
        /\ UNCHANGED <<calc, poller>>

\* sequence.get() called on the sequence itself
SequenceGet ==
    LET q == ContinousEasingSequence_get(seq, now)
    IN  /\ seq' = q.self
        /\ res' = [NoRes EXCEPT !.op = "seq_get", !.ok = q.ok, !.err = q.err,
                                !.val = q.val,
                                !.retired = q.retired, !.handoff = q.handoff]
        /\ UNCHANGED <<nodes, built, now>>
        /\ UNCHANGED layoutVars
        /\ UNCHANGED gridVars
        /\ UNCHANGED <<calc, poller>>

\* ---------------------------------------------------------------- enums.py
Bits == {"TOP", "BOTTOM", "LEFT", "RIGHT"}
CENTER == {}

\* self.BOTTOM, self.TOP, ...: a member read through an instance is the
\* member of the class, whatever the instance
Member(self, name) == {name}

\* Anchor.to_arr, in halves: 0, 1, 2 stand for 0, 0.5, 1
to_arr(self) ==
    IF \/ (Member(self, "BOTTOM") \cap Member(self, "TOP")) # {}
       \/ (Member(self, "LEFT") \cap Member(self, "RIGHT")) # {}
    THEN Raise("AssertionError")
    ELSE LET x == IF "LEFT" \in self THEN 0
                  ELSE IF "RIGHT" \in self THEN 2 ELSE 1
             y == IF "TOP" \in self THEN 0
                  ELSE IF "BOTTOM" \in self THEN 2 ELSE 1
         IN  Ok(<<x, y>>)

\* ---------------------------------------------------------------- vectors
VAdd(a, b) == <<a[1] + b[1], a[2] + b[2]>>
VSub(a, b) == <<a[1] - b[1], a[2] - b[2]>>
\* size * arr for an arr in halves (sizes are even)
VHalves(size, arr) == <<(size[1] * arr[1]) \div 2, (size[2] * arr[2]) \div 2>>

\* ---------------------------------------------------------------- Sized
get_top_left(s) ==
    LET a == to_arr(s.anchor)
    IN  IF ~a.ok THEN a ELSE Ok(VSub(s.position, VHalves(s.size, a.val)))

get_anchor_coord(s, anchor) ==
    LET a == to_arr(s.anchor)
        b == to_arr(anchor)
    IN  IF ~a.ok THEN a
        ELSE IF ~b.ok THEN b
        ELSE Ok(VSub(s.position, VHalves(s.size, VSub(a.val, b.val))))

\* ---------------------------------------------------------------- Container
\* the other axis taken for the primary one
PrimaryFlipped(b) == IF b.direction = "HORIZONTAL" THEN 1 ELSE 2

\* index of the primary axis, counted from 1
Primary(b) == IF b.direction = "HORIZONTAL" THEN 2 ELSE 1

\* the inward move of an edge-anchored child without the spacing
InwardNoSpacing(b, child, i_0) == child.size[i_0] \div 2

\* self.spacing + child.size[i_0] / 2 (line 158)
Inward(b, child, i_0) == b.spacing + (child.size[i_0] \div 2)

\* Container.occupied_space (lines 126-130)
occupied_space(b, ks) ==
    IF b.packing = "NONE" THEN Raise("AssertionError")
    ELSE LET i == Primary(b)
             term[k \in 0..Len(ks)] ==
                 IF k = 0 THEN 0 ELSE term[k - 1] + ks[k].size[i] + 2 * b.spacing
         IN  Ok(term[Len(ks)] - b.spacing)

\* the placement loop (lines 143-165): the locations, or the error of a
\* child's to_arr
RECURSIVE PlaceLoop(_, _, _, _, _)
PlaceLoop(b, ks, k, rel_pos, locations) ==
    IF k > Len(ks) THEN Ok(locations)
    ELSE LET child == ks[k]
             i == Primary(b)
             i_0 == 3 - i
             arr == to_arr(child.anchor)
         IN  IF ~arr.ok THEN arr
             ELSE LET anchor_array == [arr.val EXCEPT ![i] = 0]
                      offset0 == VHalves(b.size, anchor_array)
                      n == anchor_array[i_0] - 1
                      offset == [offset0 EXCEPT ![i_0] =
                                    @ - n * Inward(b, child, i_0)]
                      rel1 == [rel_pos EXCEPT ![i] = @ + b.spacing]
                      rel_tot == VAdd(rel1, offset)
                      rel2 == [rel1 EXCEPT ![i] = @ + child.size[i] + b.spacing]
                  IN  PlaceLoop(b, ks, k + 1, rel2, Append(locations, rel_tot))

\* lines 168-180
new_anchor(b) ==
    IF b.direction = "HORIZONTAL"
    THEN CASE b.packing = "START" -> {"TOP"}
           [] b.packing = "CENTER" -> CENTER
           [] b.packing = "END" -> {"BOTTOM"}
    ELSE CASE b.packing = "START" -> {"LEFT"}
           [] b.packing = "CENTER" -> CENTER
           [] b.packing = "END" -> {"RIGHT"}

\* x == y of two children (the dataclass __eq__ over the resolved fields,
\* anchor first, then position): an object equals itself; two children with
\* different anchors differ; with equal anchors the comparison reaches their
\* position arrays, whose elementwise == has no truth value
ChildEq(ks, a, b) ==
    IF a = b THEN "True"
    ELSE IF ks[a].anchor # ks[b].anchor THEN "False"
    ELSE "ValueError"

\* [l for x, l in locations if x == child][0]
FirstEqual(ks, locations, c) ==
    IF \E k \in 1..Len(ks) : ChildEq(ks, k, c) = "ValueError"
    THEN Raise("ValueError")
    ELSE Ok(locations[CHOOSE k \in 1..Len(ks) :
                         /\ ChildEq(ks, k, c) = "True"
                         /\ \A j \in 1..(k - 1) : ChildEq(ks, j, c) # "True"])

\* the CENTER post-pass (lines 184-191)
CenterPass(b, ks, locations) ==
    LET i == Primary(b)
        i_0 == 3 - i
        p_first == FirstEqual(ks, locations, 1)
        p_last == FirstEqual(ks, locations, Len(ks))
    IN  IF ~p_first.ok THEN p_first
        ELSE IF ~p_last.ok THEN p_last
        ELSE LET width == VSub(VAdd(p_last.val, ks[Len(ks)].size), p_first.val)
                 avg_pos == [[j \in 1..2 |-> 0] EXCEPT
                                ![i] = (b.size[i] - width[i]) \div 2]
             IN  Ok([k \in 1..Len(ks) |-> VAdd(locations[k], <<avg_pos[1], avg_pos[2]>>)])

\* the END post-pass mirrored on the primary axis only
EndPassPrimaryOnly(b, ks, locations) ==
    [k \in 1..Len(ks) |->
        [locations[k] EXCEPT ![Primary(b)] = b.size[Primary(b)] - @]]

\* the END post-pass (lines 194-195)
EndPass(b, ks, locations) ==
    [k \in 1..Len(ks) |-> VSub(b.size, locations[k])]

\* lines 139-195: the locations of the children relative to the top left
render_locations(b, ks) ==
    LET i == Primary(b)
        start == [[j \in 1..2 |-> 0] EXCEPT ![i] = 0 - b.spacing]
        placed == PlaceLoop(b, ks, 1, <<start[1], start[2]>>, <<>>)
    IN  IF ~placed.ok THEN placed
        ELSE IF b.packing = "CENTER" THEN CenterPass(b, ks, placed.val)
        ELSE IF b.packing = "END" THEN Ok(EndPass(b, ks, placed.val))
        ELSE placed

\* what a leaf child's render leaves behind: the anchor and position it ran
\* with, and the children of the container as they stood while it ran
Drawn(ks, k) ==
    [anchor |-> ks[k].anchor, position |-> ks[k].position, siblings |-> ks]

\* child.position = loc + self.get_top_left() (line 198)
AssignPosition(ks, k, pos) == [ks EXCEPT ![k].position = pos]

\* the anchor override left in place after the child's render
KeepAnchor(ks, k, old_anchor) == ks

\* child.anchor = old_anchor (line 202)
RestoreAnchor(ks, k, old_anchor) == [ks EXCEPT ![k].anchor = old_anchor]

\* the loop of lines 197-202 from child k on
RECURSIVE RenderLoop(_, _, _, _, _, _)
RenderLoop(b, ks, locations, tl, k, drawn) ==
    IF k > Len(ks) THEN [kids |-> ks, drawn |-> drawn]
    ELSE LET ks1 == AssignPosition(ks, k, VAdd(locations[k], tl))
             old_anchor == ks1[k].anchor
             ks2 == [ks1 EXCEPT ![k].anchor = new_anchor(b)]
             ks3 == RestoreAnchor(ks2, k, old_anchor)
         IN  RenderLoop(b, ks3, locations, tl, k + 1, Append(drawn, Drawn(ks2, k)))

\* the same loop entered with every child's position already assigned
RenderChildrenPositionedFirst(b, ks, locations, tl) ==
    RenderLoop(b, [k \in 1..Len(ks) |->
                      [ks[k] EXCEPT !.position = VAdd(locations[k], tl)]],
               locations, tl, 1, <<>>)

\* for child, loc in locations: ... (lines 197-202)
RenderChildren(b, ks, locations, tl) == RenderLoop(b, ks, locations, tl, 1, <<>>)

\* Container.render of a container whose children are leaves.  drawn lists,
\* in order, what each child's render saw.
Container_render(b, ks) ==
    IF b.packing = "NONE" \/ ks = <<>>
    THEN [ok |-> TRUE, err |-> "none", kids |-> ks, placed |-> <<>>,
          drawn |-> [k \in 1..Len(ks) |-> Drawn(ks, k)]]
    ELSE LET locations == render_locations(b, ks)
             tl == get_top_left(b)
             bad == IF ~locations.ok THEN locations ELSE tl
         IN  IF ~locations.ok \/ ~tl.ok
             THEN [ok |-> FALSE, err |-> bad.err, kids |-> ks, placed |-> <<>>,
                   drawn |-> <<>>]
             ELSE LET r == RenderChildren(b, ks, locations.val, tl.val)
                  IN  [ok |-> TRUE, err |-> "none", kids |-> r.kids,
                       placed |-> locations.val, drawn |-> r.drawn]

\* ---------------------------------------------------------------- layout state
MaxKids == 2

KidSizes == {<<2, 4>>, <<4, 2>>}
KidAnchors == {CENTER, {"TOP"}, {"BOTTOM"}, {"LEFT"}, {"RIGHT"}, {"BOTTOM", "RIGHT"}}
Kids == {[size |-> sz, anchor |-> a, position |-> <<0, 0>>] :
            sz \in KidSizes, a \in KidAnchors}
KidLists == UNION {[1..k -> Kids] : k \in 0..MaxKids}

NoOut == [op |-> "init", ok |-> TRUE, err |-> "none", val |-> <<0, 0>>,
          target |-> CENTER, placed |-> <<>>, drawn |-> <<>>,
          before |-> <<>>, space |-> 0]

IdleBox == [size |-> <<16, 12>>, position |-> <<20, 30>>, anchor |-> CENTER,
            direction |-> "HORIZONTAL", packing |-> "NONE", spacing |-> 5]

LayoutIdle ==
    /\ box = IdleBox
    /\ kids = <<>>
    /\ out = NoOut

\* container.render(ctx)
Render ==
    LET r == Container_render(box, kids)
    IN  /\ kids' = r.kids
        /\ out' = [NoOut EXCEPT !.op = "render", !.ok = r.ok, !.err = r.err,
                                !.placed = r.placed, !.drawn = r.drawn,
                                !.before = kids]
        /\ UNCHANGED box
        /\ UNCHANGED valueVars
        /\ UNCHANGED gridVars
        /\ UNCHANGED <<calc, poller>>

\* container.occupied_space(); placed and drawn stay those of the last render
OccupiedSpace ==
    LET r == occupied_space(box, kids)
    IN  /\ out' = [out EXCEPT !.op = "occupied_space", !.ok = r.ok,
                              !.err = r.err, !.space = r.val]
        /\ UNCHANGED <<box, kids>>
        /\ UNCHANGED valueVars
        /\ UNCHANGED gridVars
        /\ UNCHANGED <<calc, poller>>

\* sized.anchor.to_arr()
ToArr ==
    LET r == to_arr(box.anchor)
    IN  /\ out' = [NoOut EXCEPT !.op = "to_arr", !.ok = r.ok, !.err = r.err,
                                !.val = r.val]
        /\ UNCHANGED <<box, kids>>
        /\ UNCHANGED valueVars
        /\ UNCHANGED gridVars
        /\ UNCHANGED <<calc, poller>>

\* sized.get_top_left()
GetTopLeft ==
    LET r == get_top_left(box)
    IN  /\ out' = [NoOut EXCEPT !.op = "get_top_left", !.ok = r.ok,
                                !.err = r.err, !.val = r.val]
        /\ UNCHANGED <<box, kids>>
        /\ UNCHANGED valueVars
        /\ UNCHANGED gridVars
        /\ UNCHANGED <<calc, poller>>

\* sized.get_anchor_coord(target)
GetAnchorCoord(target) ==
    LET r == get_anchor_coord(box, target)
    IN  /\ out' = [NoOut EXCEPT !.op = "get_anchor_coord", !.ok = r.ok,
                                !.err = r.err, !.val = r.val, !.target = target]
        /\ UNCHANGED <<box, kids>>
        /\ UNCHANGED valueVars
        /\ UNCHANGED gridVars
        /\ UNCHANGED <<calc, poller>>

ValueIdle ==
    /\ nodes = DefaultNodes
    /\ seq = [n |-> 0, queue |-> <<>>]
    /\ built = seq
    /\ now = 0
    /\ res = NoRes

\* ---------------------------------------------------------------- interpolate.py
\* Numbers of the curves are fractions <<numerator, denominator>> with a
\* positive denominator, as for in_quad above.  Inexact stands for a result
\* the library computes through cos, sin, sqrt of a non-square or a decimal
\* constant: a float that is neither 0 nor 1 as far as the model knows.
Zero == <<0, 1>>
One == <<1, 1>>
Two == <<2, 1>>
Half == <<1, 2>>
Inexact == <<1, 0>>

IsZero(r) == r[2] # 0 /\ r[1] = 0
IsOne(r) == r[2] # 0 /\ r[1] = r[2]

FAdd(a, b) == <<a[1] * b[2] + b[1] * a[2], a[2] * b[2]>>
FSub(a, b) == <<a[1] * b[2] - b[1] * a[2], a[2] * b[2]>>
FMul(a, b) == <<a[1] * b[1], a[2] * b[2]>>
FLt(a, b) == a[1] * b[2] < b[1] * a[2]
FHalf(a) == <<a[1], 2 * a[2]>>

RECURSIVE FPow(_, _)
FPow(a, k) == IF k = 0 THEN One ELSE FMul(a, FPow(a, k - 1))

\* pow(2, e) for a fraction e that is a whole number
Pow2(e) ==
    LET k == e[1] \div e[2]
    IN  IF k >= 0 THEN <<2 ^ k, 1>> ELSE <<1, 2 ^ (0 - k)>>

\* math.sqrt: exact on 0 and 1
Sqrt(r) == IF IsZero(r) THEN Zero ELSE IF IsOne(r) THEN One ELSE Inexact

\* x = max(min(x, 1), 0), the first line of every curve
Clamp01(f) == <<Max(Min(f[1], f[2]), 0), f[2]>>

\* the bodies shared by the quad, cubic, quart and quint curves
InPow(f, k) == FPow(Clamp01(f), k)

OutPow(f, k) == FSub(One, FPow(FSub(One, Clamp01(f)), k))

InOutPow(f, k) ==
    LET x == Clamp01(f)
    IN  IF FLt(x, Half) THEN FMul(<<2 ^ (k - 1), 1>>, FPow(x, k))
        ELSE FSub(One, FHalf(FPow(FAdd(FMul(<<0 - 2, 1>>, x), Two), k)))

\* the body of the curves that return 0 at 0 and 1 at 1 before any arithmetic
Guarded(f, inner) ==
    LET x == Clamp01(f)
    IN  IF IsZero(x) THEN Zero ELSE IF IsOne(x) THEN One ELSE inner

\* _bounce_out, with n1 = 7.5625 and d1 = 2.75 as fractions
n1 == <<121, 16>>

_bounce_out(f) ==
    LET x == Clamp01(f)
        Piece(shift, add) == FAdd(FMul(FMul(n1, FSub(x, shift)), x), add)
    IN  IF FLt(x, <<4, 11>>) THEN FMul(FMul(n1, x), x)
        ELSE IF FLt(x, <<8, 11>>) THEN Piece(<<6, 11>>, <<3, 4>>)
        ELSE IF FLt(x, <<10, 11>>) THEN Piece(<<9, 11>>, <<15, 16>>)
        ELSE Piece(<<21, 22>>, <<63, 64>>)

linear(f) == Clamp01(f)

out_quad(f) == OutPow(f, 2)

in_out_quad(f) == InOutPow(f, 2)

in_cubic(f) == InPow(f, 3)

out_cubic(f) == OutPow(f, 3)

in_out_cubic(f) == InOutPow(f, 3)

in_quart(f) == InPow(f, 4)

out_quart(f) == OutPow(f, 4)

in_out_quart(f) == InOutPow(f, 4)

in_quint(f) == InPow(f, 5)

out_quint(f) == OutPow(f, 5)

in_out_quint(f) == InOutPow(f, 5)

in_sine(f) == Guarded(f, Inexact)

out_sine(f) == Guarded(f, Inexact)

in_out_sine(f) == Guarded(f, Inexact)

\* in_expo without its test for x == 0
in_expoUnguarded(f) ==
    LET x == Clamp01(f)
    IN  Pow2(FSub(FMul(<<10, 1>>, x), <<10, 1>>))

in_expo(f) ==
    LET x == Clamp01(f)
    IN  IF IsZero(x) THEN Zero ELSE Pow2(FSub(FMul(<<10, 1>>, x), <<10, 1>>))

out_expo(f) ==
    LET x == Clamp01(f)
    IN  IF IsOne(x) THEN One ELSE FSub(One, Pow2(FMul(<<0 - 10, 1>>, x)))

in_out_expo(f) ==
    LET x == Clamp01(f)
    IN  Guarded(f, IF FLt(x, Half)
                   THEN FHalf(Pow2(FSub(FMul(<<20, 1>>, x), <<10, 1>>)))
                   ELSE FHalf(FSub(Two, Pow2(FAdd(FMul(<<0 - 20, 1>>, x),
                                                  <<10, 1>>)))))

in_circ(f) == Guarded(f, Inexact)

out_circ(f) == Sqrt(FSub(One, FPow(FSub(Clamp01(f), One), 2)))

in_out_circ(f) == Guarded(f, Inexact)

in_back(f) == Guarded(f, Inexact)

out_back(f) == Guarded(f, Inexact)

in_out_back(f) == Guarded(f, Inexact)

in_elastic(f) == Guarded(f, Inexact)

out_elastic(f) == Guarded(f, Inexact)

in_out_elastic(f) == Guarded(f, Inexact)

in_bounce(f) == Guarded(f, FSub(One, _bounce_out(FSub(One, Clamp01(f)))))

out_bounce(f) ==
    LET x == Clamp01(f)
    IN  Guarded(f, IF FLt(x, Half)
                   THEN FHalf(FSub(One, _bounce_out(FSub(One, FMul(Two, x)))))
                   ELSE FHalf(FAdd(One, _bounce_out(FSub(FMul(Two, x), One)))))

in_out_bounce(f) ==
    LET x == Clamp01(f)
    IN  Guarded(f, IF FLt(x, Half)
                   THEN FHalf(FSub(One, out_bounce(FSub(One, FMul(Two, x)))))
                   ELSE FHalf(FAdd(One, out_bounce(FSub(FMul(Two, x), One)))))

CurveNames ==
    {"linear", "in_quad", "out_quad", "in_out_quad",
     "in_cubic", "out_cubic", "in_out_cubic",
     "in_quart", "out_quart", "in_out_quart",
     "in_quint", "out_quint", "in_out_quint",
     "in_sine", "out_sine", "in_out_sine",
     "in_expo", "out_expo", "in_out_expo",
     "in_circ", "out_circ", "in_out_circ",
     "in_back", "out_back", "in_out_back",
     "in_elastic", "out_elastic", "in_out_elastic",
     "in_bounce", "out_bounce", "in_out_bounce"}

\* getattr(interpolate, name)(f)
Curve(name, f) ==
    CASE name = "linear" -> linear(f)
      [] name = "in_quad" -> in_quad(f)
      [] name = "out_quad" -> out_quad(f)
      [] name = "in_out_quad" -> in_out_quad(f)
      [] name = "in_cubic" -> in_cubic(f)
      [] name = "out_cubic" -> out_cubic(f)
      [] name = "in_out_cubic" -> in_out_cubic(f)
      [] name = "in_quart" -> in_quart(f)
      [] name = "out_quart" -> out_quart(f)
      [] name = "in_out_quart" -> in_out_quart(f)
      [] name = "in_quint" -> in_quint(f)
      [] name = "out_quint" -> out_quint(f)
      [] name = "in_out_quint" -> in_out_quint(f)
      [] name = "in_sine" -> in_sine(f)
      [] name = "out_sine" -> out_sine(f)
      [] name = "in_out_sine" -> in_out_sine(f)
      [] name = "in_expo" -> in_expo(f)
      [] name = "out_expo" -> out_expo(f)
      [] name = "in_out_expo" -> in_out_expo(f)
      [] name = "in_circ" -> in_circ(f)
      [] name = "out_circ" -> out_circ(f)
      [] name = "in_out_circ" -> in_out_circ(f)
      [] name = "in_back" -> in_back(f)
      [] name = "out_back" -> out_back(f)
      [] name = "in_out_back" -> in_out_back(f)
      [] name = "in_elastic" -> in_elastic(f)
      [] name = "out_elastic" -> out_elastic(f)
      [] name = "in_out_elastic" -> in_out_elastic(f)
      [] name = "in_bounce" -> in_bounce(f)
      [] name = "out_bounce" -> out_bounce(f)
      [] name = "in_out_bounce" -> in_out_bounce(f)

\* oscillate works on n and pause in quarters: Unit stands for 1
Unit == 4

\* the rising ramp of oscillate started at 0 instead of at pause
RampFromZero(n, pause) == n

\* return n - pause (line 50)
Ramp(n, pause) == n - pause

\* oscillate(n, pause): the value, and the depth of nested calls it made
RECURSIVE oscillate(_, _)
oscillate(n0, pause) ==
    LET period == 2 * pause + 2 * Unit
        n == n0 % period
    IN  IF n < pause THEN [val |-> 0, nested |-> 0]
        ELSE IF n < pause + Unit THEN [val |-> Ramp(n, pause), nested |-> 0]
        ELSE LET inner == oscillate(n - (period \div 2), pause)
             IN  [val |-> Unit - inner.val, nested |-> inner.nested + 1]

\* ---------------------------------------------------------------- calls of interpolate.py
MaxN == 16
MaxPause == 4

CurveArgs == {<<0 - 1, 1>>, <<0, 1>>, <<1, 2>>, <<1, 1>>, <<2, 1>>}

NoCalc == [fn |-> "none", arg |-> Zero, pause |-> 0, done |-> FALSE,
           ret |-> Zero, nested |-> 0]

CalcIdle == calc = NoCalc

\* curve(x) for one of the easing curves
Ease ==
    /\ calc.fn \in CurveNames /\ ~calc.done
    /\ calc' = [calc EXCEPT !.done = TRUE, !.ret = Curve(calc.fn, calc.arg)]
    /\ UNCHANGED valueVars
    /\ UNCHANGED layoutVars
    /\ UNCHANGED gridVars
    /\ UNCHANGED poller

\* oscillate(n, pause)
Oscillate ==
    /\ calc.fn = "oscillate" /\ ~calc.done
    /\ LET r == oscillate(calc.arg, calc.pause)
       IN  calc' = [calc EXCEPT !.done = TRUE, !.ret = r.val,
                                !.nested = r.nested]
    /\ UNCHANGED valueVars
    /\ UNCHANGED layoutVars
    /\ UNCHANGED gridVars
    /\ UNCHANGED poller

\* ---------------------------------------------------------------- poller.py
\* None of raw and process is 0; process p (p >= 1) prints the text p
None == 0

\* the callable command, called at time t
command_call(t) == 10 + t

\* the formatter given to the Poller
formatter(x) == <<"formatted", x>>

\* should_update (lines 30-33)
should_update(self, t) ==
    \/ self.last_timestamp = Unset
    \/ t - self.last_timestamp > self.timespan

\* Poller.update at time t; exits tells whether the process started by this
\* call has ended when poll() is called on it (line 47)
Poller_update(self, t, exits) ==
    IF ~should_update(self, t) THEN self
    ELSE IF self.command = "callable"
    THEN [self EXCEPT !.raw = command_call(t)]
    ELSE LET pid == self.spawned + 1
             started == [self EXCEPT !.last_timestamp = t, !.process = pid,
                                     !.spawned = pid]
         IN  IF exits
             THEN [started EXCEPT !.exited = @ \cup {pid}, !.raw = pid,
                                  !.process = None]
             ELSE started

\* Poller.get at time t: self as the call leaves it, with the value returned
Poller_get(self, t, exits) ==
    LET u == Poller_update(self, t, exits)
    IN  [u EXCEPT !.op = "get",
                  !.ret = IF u.raw = None THEN <<"None">> ELSE formatter(u.raw),
                  !.read = IF u.raw \in 1..u.spawned THEN @ \cup {u.raw} ELSE @]

NoPoller == [command |-> "shell", timespan |-> 0, last_timestamp |-> Unset,
             raw |-> None, process |-> None, spawned |-> 0, exited |-> {},
             read |-> {}, op |-> "init", ret |-> <<"None">>]

PollerIdle == poller = NoPoller

\* poller.get()
PollerGet ==
    /\ \E exits \in BOOLEAN : poller' = Poller_get(poller, now, exits)
    /\ UNCHANGED valueVars
    /\ UNCHANGED layoutVars
    /\ UNCHANGED gridVars
    /\ UNCHANGED calc

\* a process started by the poller ends
ProcessExit ==
    /\ \E p \in 1..poller.spawned :
          /\ p \notin poller.exited
          /\ poller' = [poller EXCEPT !.exited = @ \cup {p}, !.op = "exit"]
    /\ UNCHANGED valueVars
    /\ UNCHANGED layoutVars
    /\ UNCHANGED gridVars
    /\ UNCHANGED calc

\* ---------------------------------------------------------------- utils.py
\* the comparison of the loop of is_rectangular with `prev` read for its truth
DiffersFromTruthyPrev(prev, length) == prev # Unset /\ prev # 0 /\ length # prev

\* prev is not None and length != prev (line 55); Unset stands for None
DiffersFromPrev(prev, length) == prev # Unset /\ length # prev

RECURSIVE RectLoop(_, _, _)
RectLoop(nested, k, prev) ==
    IF k > Len(nested) THEN TRUE
    ELSE IF DiffersFromPrev(prev, Len(nested[k])) THEN FALSE
    ELSE RectLoop(nested, k + 1, Len(nested[k]))

\* is_rectangular(nested, dims=2)
is_rectangular(nested) == RectLoop(nested, 1, Unset)

\* shape_of(nested, dims=2) of a rectangular, non-empty nested list
shape_of(nested) == <<Len(nested), Len(nested[1])>>

\* ---------------------------------------------------------------- make_grid
\* self.children += row with the row put in front
PrependChildren(ch, row) == row \o ch

\* self.children += row (line 124)
ExtendChildren(ch, row) == ch \o row

\* the ParentFunction of lines 120-122; k holds anchor_like as the fractions
\* (2i - (rows-1)) * scale[1] / 2(rows-1) and (2j - (cols-1)) * scale[2] / 2(cols-1)
GridPosition(i, j, rows, cols, scale) ==
    [kind |-> "ParentFunction",
     k |-> <<(2 * i - (rows - 1)) * scale[1], 2 * (rows - 1),
             (2 * j - (cols - 1)) * scale[2], 2 * (cols - 1)>>]

\* the loops of lines 113-124 from row i, column j (counted from 1) on
RECURSIVE GridLoop(_, _, _, _, _, _, _)
GridLoop(st, its, rows, cols, scale, i, j) ==
    IF i > Len(its) THEN st
    ELSE IF j > Len(its[i])
    THEN GridLoop([st EXCEPT !.children = ExtendChildren(st.children, its[i])],
                  its, rows, cols, scale, i + 1, 1)
    ELSE LET item == its[i][j]
             st1 == [st EXCEPT !.cells[item].parent = "self"]
         IN  IF rows - 1 = 0 \/ cols - 1 = 0
             THEN [st1 EXCEPT !.ok = FALSE, !.err = "ZeroDivisionError"]
             ELSE GridLoop([st1 EXCEPT !.cells[item].position =
                                          GridPosition(i - 1, j - 1, rows, cols, scale)],
                           its, rows, cols, scale, i, j + 1)

\* Container.make_grid(items, scale) on the store st = [cells, children]
make_grid(st, its, scale) ==
    LET st0 == [cells |-> st.cells, children |-> st.children,
                ok |-> TRUE, err |-> "none"]
    IN  IF its = <<>> \/ ~is_rectangular(its)
        THEN [st0 EXCEPT !.ok = FALSE, !.err = "AssertionError"]
        ELSE GridLoop(st0, its, shape_of(its)[1], shape_of(its)[2], scale, 1, 1)

\* ---------------------------------------------------------------- grid state
MaxRows == 3
MaxCols == 3

ItemIds == 1..(MaxRows * MaxCols)

\* the nested lists given to make_grid: up to MaxRows rows of up to MaxCols
\* items each, the items numbered in reading order, upwards or downwards
RowLengths == UNION {[1..r -> 0..MaxCols] : r \in 0..MaxRows}

RECURSIVE SumTo(_, _)
SumTo(lens, i) == IF i = 0 THEN 0 ELSE SumTo(lens, i - 1) + lens[i]

Numbered(lens, up) ==
    [i \in 1..Len(lens) |->
        [j \in 1..lens[i] |->
            IF up THEN SumTo(lens, i - 1) + j
            ELSE SumTo(lens, Len(lens)) + 1 - (SumTo(lens, i - 1) + j)]]

Grids == {Numbered(lens, up) : lens \in RowLengths, up \in BOOLEAN}

NewItem == [parent |-> "None", position |-> [kind |-> "Absolute"]]

NoGres == [op |-> "init", ok |-> TRUE, err |-> "none", items |-> <<>>]

GridIdle ==
    /\ cells = [c \in ItemIds |-> NewItem]
    /\ children = <<>>
    /\ gres = NoGres

\* container.make_grid(items, scale), once
MakeGrid(its, scale) ==
    LET r == make_grid([cells |-> cells, children |-> children], its, scale)
    IN  /\ gres.op = "init"
        /\ cells' = r.cells
        /\ children' = r.children
        /\ gres' = [op |-> "make_grid", ok |-> r.ok, err |-> r.err, items |-> its]
        /\ UNCHANGED valueVars
        /\ UNCHANGED layoutVars
        /\ UNCHANGED <<calc, poller>>

\* ---------------------------------------------------------------- Spec
GraphSequences ==
    {[n |-> 0, queue |-> <<>>],
     [n |-> 0, queue |-> <<MkEasing(0, 8, 2, "none", TRUE),
                           MkEasing(0, 4, 1, "none", TRUE)>>]}

Init ==
    /\ CalcIdle
    /\ PollerIdle
    /\ nodes \in {[m \in NodeIds |-> [parent |-> m - 1, size |-> f[m]]] :
                     f \in [NodeIds -> StoredValues]}
    /\ seq \in GraphSequences
    /\ built = seq
    /\ now = 0
    /\ res = NoRes
    /\ LayoutIdle
    /\ GridIdle

Next ==
    \/ Tick
    \/ \E m \in NodeIds : Resolve(m)

Spec == Init /\ [][Next]_vars

\* ---------------------------------------------------------------- SpecSeq
InitSeq ==
    /\ CalcIdle
    /\ PollerIdle
    /\ nodes = DefaultNodes
    /\ seq \in [n : {0, 12}, queue : Queues]
    /\ built = seq
    /\ now = 0
    /\ res = NoRes
    /\ LayoutIdle
    /\ GridIdle

NextSeq ==
    \/ Tick
    \/ SequenceGet

SpecSeq == InitSeq /\ [][NextSeq]_vars

\* ---------------------------------------------------------------- SpecEasing
\* an Easing on the root node, of any period, started now or later
EasingPeriods == {0 - 2, 0 - 1, 0, 1, 2}

EasingInputs ==
    {[MkEasing(0, tg, p, c, cl) EXCEPT !.start_time = st] :
        tg \in Targets, p \in EasingPeriods, c \in Curves, cl \in BOOLEAN,
        st \in {0, 2}}

InitEasing ==
    /\ CalcIdle
    /\ PollerIdle
    /\ nodes \in {[DefaultNodes EXCEPT ![1].size = e, ![2].size = g] :
                     e \in EasingInputs,
                     g \in {[kind |-> "Offset", n |-> 3],
                            [kind |-> "Absolute", n |-> 3]}}
    /\ seq = [n |-> 0, queue |-> <<>>]
    /\ built = seq
    /\ now = 0
    /\ res = NoRes
    /\ LayoutIdle
    /\ GridIdle

NextEasing ==
    \/ Tick
    \/ \E m \in NodeIds : Resolve(m)

SpecEasing == InitEasing /\ [][NextEasing]_vars

\* ---------------------------------------------------------------- SpecAnchor
InitAnchor ==
    /\ CalcIdle
    /\ PollerIdle
    /\ ValueIdle
    /\ box \in {[IdleBox EXCEPT !.anchor = a, !.size = sz] :
                   a \in SUBSET Bits, sz \in {<<16, 12>>, <<4, 8>>}}
    /\ kids = <<>>
    /\ out = NoOut
    /\ GridIdle

NextAnchor ==
    \/ ToArr
    \/ GetTopLeft
    \/ \E t \in {CENTER, {"TOP"}, {"BOTTOM", "RIGHT"}, {"LEFT"}} : GetAnchorCoord(t)

SpecAnchor == InitAnchor /\ [][NextAnchor]_vars

\* ---------------------------------------------------------------- SpecPack
InitPack ==
    /\ CalcIdle
    /\ PollerIdle
    /\ ValueIdle
    /\ box \in {[IdleBox EXCEPT !.anchor = f.anchor, !.size = f.size,
                                !.direction = d, !.packing = p, !.spacing = sp] :
                   f \in {[anchor |-> CENTER, size |-> <<16, 12>>],
                          [anchor |-> {"TOP", "LEFT"}, size |-> <<8, 6>>]},
                   d \in {"HORIZONTAL", "VERTICAL"},
                   p \in {"NONE", "START", "CENTER", "END"},
                   sp \in {0, 1, 2}}
    /\ kids \in KidLists
    /\ out = NoOut
    /\ GridIdle

NextPack ==
    \/ Render
    \/ OccupiedSpace

SpecPack == InitPack /\ [][NextPack]_vars

\* ---------------------------------------------------------------- SpecGrid
InitGrid ==
    /\ CalcIdle
    /\ PollerIdle
    /\ ValueIdle
    /\ LayoutIdle
    /\ \E pre \in {<<>>, <<1>>, <<2, 1>>} :
          /\ children = pre
          /\ cells = [c \in ItemIds |->
                        IF \E k \in 1..Len(pre) : pre[k] = c
                        THEN [NewItem EXCEPT !.parent = "self"] ELSE NewItem]
    /\ gres = NoGres

NextGrid ==
    \E its \in Grids, scale \in {<<1, 1>>, <<2, 1>>} : MakeGrid(its, scale)

SpecGrid == InitGrid /\ [][NextGrid]_vars

\* ---------------------------------------------------------------- SpecInterpolate
InitInterpolate ==
    /\ PollerIdle
    /\ ValueIdle
    /\ LayoutIdle
    /\ GridIdle
    /\ calc \in {[NoCalc EXCEPT !.fn = name, !.arg = x] :
                    name \in CurveNames, x \in CurveArgs}
          \cup {[NoCalc EXCEPT !.fn = "oscillate", !.arg = n, !.pause = p] :
                    n \in 0..MaxN, p \in 0..MaxPause}

NextInterpolate ==
    \/ Ease
    \/ Oscillate

SpecInterpolate == InitInterpolate /\ [][NextInterpolate]_vars

\* ---------------------------------------------------------------- SpecPoller
InitPoller ==
    /\ ValueIdle
    /\ LayoutIdle
    /\ GridIdle
    /\ CalcIdle
    /\ poller \in {[NoPoller EXCEPT !.command = c, !.timespan = ts] :
                      c \in {"shell", "callable"}, ts \in {0, 1}}

NextPoller ==
    \/ Tick
    \/ PollerGet
    \/ ProcessExit

SpecPoller == InitPoller /\ [][NextPoller]_vars

\* ---------------------------------------------------------------- claims
kind(m) == nodes[m].size.kind

\* the reference recursion of C1, over the stored values
RECURSIVE RefChainOK(_)
RefChainOK(m) ==
    \/ kind(m) \in {"plain", "Absolute"}
    \/ /\ kind(m) \in {"Relative", "Percentage", "Offset"}
       /\ parent(m) # NoParent
       /\ RefChainOK(parent(m))

RECURSIVE RefResolve(_)
RefResolve(m) ==
    LET g == nodes[m].size
    IN  CASE g.kind \in {"plain", "Absolute"} -> g.n
          [] g.kind = "Relative" -> g.n * RefResolve(parent(m))
          [] g.kind = "Percentage" -> g.n * RefResolve(parent(m)) * 100
          [] g.kind = "Offset" -> g.n + RefResolve(parent(m))

RECURSIVE RefChain(_)
RefChain(m) ==
    IF kind(m) \in {"plain", "Absolute"} THEN {m}
    ELSE {m} \cup RefChain(parent(m))

\* C1: on a chain of Relative, Percentage and Offset values that ends at a
\* plain or Absolute value, get returns the value of the reference recursion
\* (n, n * P, n * P * 100, n + P) and reads exactly the nodes from the one
\* resolved up to the first ancestor that is not parent-dependent.
C1_ReferenceRecursion ==
    (res.op = "get" /\ RefChainOK(res.node)) =>
        /\ res.ok
        /\ res.val = RefResolve(res.node)
        /\ res.touched = RefChain(res.node)

C1_Witness ==
    /\ res.op = "get" /\ res.node = 3
    /\ kind(3) = "Percentage" /\ kind(2) = "Offset" /\ kind(1) = "Absolute"
    /\ res.ok /\ res.val = 1200

\* a parent-dependent value whose chain runs into a missing parent: None, or
\* a parent without the attribute, at the node or at an ancestor
RECURSIVE MissingUp(_)
MissingUp(m) ==
    /\ kind(m) \in ParentKinds
    /\ \/ parent(m) = NoParent
       \/ kind(parent(m)) = "absent"
       \/ MissingUp(parent(m))

\* C2: resolving a Relative, Percentage, Offset or ParentFunction whose
\* parent is None or lacks the attribute, at the node itself or further up
\* the chain, ends in the ValueError and yields no value.
C2_MissingParentFails ==
    (res.op = "get" /\ MissingUp(res.node)) =>
        (~res.ok /\ res.err = "ValueError")

C2_Witness ==
    /\ res.op = "get" /\ res.node = 3
    /\ kind(3) = "Relative" /\ kind(2) = "Offset" /\ kind(1) = "Percentage"
    /\ ~res.ok /\ res.err = "ValueError"

\* the entry on top of the stack after the call
TopEntry == seq.queue[Len(seq.queue)]
LastRetired == res.retired[Len(res.retired)]

\* C3: at the get that retires the expired top entry and hands over to the
\* next one, the value returned for the new top (clamping enabled) equals the
\* retired entry's value_at_frac(1).
C3_HandOffContinuity ==
    (res.op = "seq_get" /\ res.handoff /\ TopEntry.clamp) =>
        res.val = LastRetired

\* C4: at a hand-off the new top's origin is the retired entry's
\* value_at_frac(1) and its start_time is the current time.
C4_TransitionRule ==
    (res.op = "seq_get" /\ res.handoff) =>
        (TopEntry.n = LastRetired /\ TopEntry.start_time = now)

\* C5 as stated: an exhausted sequence returns the n it was constructed with.
C5_ConstructedFallback ==
    (res.op = "seq_get" /\ seq.queue = <<>>) => res.val = built.n

\* the value_at_frac(1) of the entry retired last: the bottom of the stack
\* as constructed
LastFinal ==
    IF built.queue = <<>> THEN built.n
    ELSE value_at_frac(built.queue[1], <<1, 1>>)

\* C5 amended: an exhausted sequence returns its current n, which is the
\* value_at_frac(1) of the entry retired last (the constructed n when no entry
\* was ever retired); a get never grows the stack, so exhausted is terminal.
C5_ExhaustedReturnsLastFinal ==
    [][/\ Len(seq'.queue) <= Len(seq.queue)
       /\ (res'.op = "seq_get" /\ seq'.queue = <<>>) =>
              (res'.val = seq'.n /\ seq'.n = LastFinal)]_vars

C5_Witness ==
    /\ res.op = "seq_get" /\ seq.queue = <<>>
    /\ Len(built.queue) = 2 /\ Len(res.retired) = 2
    /\ res.val # built.n

\* C6: to_arr of an anchor with both TOP and BOTTOM, or both LEFT and RIGHT,
\* fails and returns no vector.
C6_OpposedAnchorFails ==
    (/\ out.op = "to_arr"
     /\ \/ {"TOP", "BOTTOM"} \subseteq box.anchor
        \/ {"LEFT", "RIGHT"} \subseteq box.anchor)
    => ~out.ok

\* C7: after a render under END, every child's position relative to the
\* container's top left is container.size minus the location render computes
\* for the same container and children under START, on both axes.
C7_PackingSymmetry ==
    (out.op = "render" /\ out.ok /\ box.packing = "END") =>
        \A k \in 1..Len(kids) :
            VSub(kids[k].position, get_top_left(box).val) =
                VSub(box.size,
                     render_locations([box EXCEPT !.packing = "START"], kids).val[k])

C7_Witness ==
    /\ out.op = "render" /\ out.ok /\ box.packing = "END"
    /\ Len(kids) = 2
    /\ kids[1].anchor = {"BOTTOM", "RIGHT"} /\ kids[2].anchor = CENTER
    /\ kids[1].position # kids[2].position

\* the claim's own reading of a nested list
IsRect(its) == \A a, b \in 1..Len(its) : Len(its[a]) = Len(its[b])

RECURSIVE Flatten(_)
Flatten(its) == IF its = <<>> THEN <<>> ELSE Head(its) \o Flatten(Tail(its))

\* C8: make_grid on an R x C grid with R >= 2 and C >= 2 succeeds, appends
\* the R*C items in row-major order after the children already present, and
\* makes the container the parent of every item.
C8_GridAppendsAll ==
    [][(/\ gres'.op = "make_grid"
        /\ IsRect(gres'.items)
        /\ Len(gres'.items) >= 2
        /\ Len(gres'.items[1]) >= 2)
       => /\ gres'.ok
          /\ children' = children \o Flatten(gres'.items)
          /\ Len(children') = Len(children) + Len(gres'.items) * Len(gres'.items[1])
          /\ \A i \in 1..Len(gres'.items) : \A j \in 1..Len(gres'.items[i]) :
                cells'[gres'.items[i][j]].parent = "self"]_vars

C8_Witness ==
    /\ gres.op = "make_grid" /\ gres.ok
    /\ Len(gres.items) = 2 /\ Len(gres.items[1]) = 3
    /\ Len(children) = 8
    /\ children[3] = gres.items[1][1] /\ children[8] = gres.items[2][3]

\* C9: make_grid on rows of unequal length, or on an empty list, fails and
\* leaves the children list and every item's parent and position as they were.
C9_NonRectangularFailsClean ==
    [][(/\ gres'.op = "make_grid"
        /\ (gres'.items = <<>> \/ ~IsRect(gres'.items)))
       => /\ ~gres'.ok
          /\ children' = children
          /\ cells' = cells]_vars

C9_Witness ==
    /\ gres.op = "make_grid" /\ ~gres.ok /\ gres.err = "AssertionError"
    /\ Len(gres.items) = 2
    /\ Len(gres.items[1]) = 0 /\ Len(gres.items[2]) = 1

\* the chain resolved from node m ends at an easing sequence
RECURSIVE ReachesSequence(_)
ReachesSequence(m) ==
    \/ kind(m) = "Sequence"
    \/ /\ kind(m) \in ParentKinds
       /\ parent(m) # NoParent
       /\ ReachesSequence(parent(m))

\* C10 as stated: no get changes any stored field.
C10_NoSideEffect ==
    [][res'.op = "get" => (nodes' = nodes /\ seq' = seq)]_vars

\* C10 amended: a get changes no stored field of any node or of any value
\* other than an easing sequence, and changes the easing sequence only when
\* the chain it resolves ends at that sequence.
C10_OnlySequenceChanges ==
    [][res'.op = "get" =>
          /\ nodes' = nodes
          /\ ~ReachesSequence(res'.node) => seq' = seq]_vars

C10_Witness ==
    /\ res.op = "get" /\ res.node = 2 /\ res.ok
    /\ kind(2) = "Relative" /\ kind(1) = "Easing"
    /\ now = 2 /\ res.val = 16
OwnKinds == {"plain", "Absolute", "TimeFunction", "Easing", "Sequence"}

C12_DegeneratePeriod ==
    (res.op = "get" /\ res.node = 1 /\ kind(1) = "Easing"
        /\ nodes[1].size.period <= 0) =>
        (res.ok /\ res.val = value_at_frac(nodes[1].size, <<1, 1>>))

\* a packed render that returned
PackedRender ==
    /\ out.op = "render" /\ out.ok
    /\ box.packing # "NONE" /\ kids # <<>>

\* the position this pass gives child j
Assigned(j) == VAdd(out.placed[j], get_top_left(box).val)

\* C13 as stated: when the render of any child of a packed container begins,
\* the position of every child has already been assigned by this pass.
C13_AllPositionedBeforeAnyRender ==
    PackedRender =>
        \A k \in 1..Len(out.drawn), j \in 1..Len(kids) :
            out.drawn[k].siblings[j].position = Assigned(j)

\* C13: in one pass of a packed container the position of a child is
\* assigned immediately before that child's own render: while child k renders,
\* the children up to k hold the position of this pass and every later child
\* still holds the position it had before the call; once the call returns
\* every child holds the position of this pass.
C13_PositionedAtOwnRender ==
    PackedRender =>
        /\ Len(out.drawn) = Len(kids)
        /\ \A k \in 1..Len(out.drawn), j \in 1..Len(kids) :
              out.drawn[k].siblings[j].position =
                  IF j <= k THEN Assigned(j) ELSE out.before[j].position
        /\ \A j \in 1..Len(kids) : kids[j].position = Assigned(j)

C13_Witness ==
    /\ PackedRender /\ Len(kids) = 2
    /\ out.before[2].position = <<0, 0>>
    /\ out.drawn[1].siblings[2].position = <<0, 0>>
    /\ out.drawn[1].position = Assigned(1)
    /\ kids[2].position = Assigned(2) /\ Assigned(2) # <<0, 0>>

\* C14: a packed render that returns leaves every child with the anchor it
\* had before the call; while a child's own render runs that child carries
\* the packing anchor (TOP, CENTER, BOTTOM for HORIZONTAL and LEFT, CENTER,
\* RIGHT for VERTICAL under START, CENTER, END) and every other child carries
\* its own.
C14_AnchorRestored ==
    PackedRender =>
        /\ \A k \in 1..Len(kids) : kids[k].anchor = out.before[k].anchor
        /\ \A k \in 1..Len(out.drawn) :
              /\ out.drawn[k].anchor =
                    CASE box.packing = "START" ->
                            IF box.direction = "HORIZONTAL" THEN {"TOP"} ELSE {"LEFT"}
                      [] box.packing = "CENTER" -> {}
                      [] box.packing = "END" ->
                            IF box.direction = "HORIZONTAL" THEN {"BOTTOM"} ELSE {"RIGHT"}
              /\ \A j \in 1..Len(kids) :
                    j # k => out.drawn[k].siblings[j].anchor = out.before[j].anchor

C14_Witness ==
    /\ PackedRender /\ Len(kids) = 2
    /\ box.direction = "VERTICAL" /\ box.packing = "END"
    /\ out.before[1].anchor = {"TOP"} /\ out.before[2].anchor = {"LEFT"}
    /\ out.drawn[1].anchor = {"RIGHT"} /\ out.drawn[2].anchor = {"RIGHT"}
    /\ kids[1].anchor = {"TOP"} /\ kids[2].anchor = {"LEFT"}

\* C15: for n >= 0 and pause >= 0, oscillate(n + 2 * pause + 2, pause) =
\* oscillate(n, pause), oscillate(pause, pause) = 0 and oscillate(pause + 1,
\* pause) = 1, and a call of oscillate makes at most one nested call.
C15_OscillatePeriodic ==
    (calc.fn = "oscillate" /\ calc.done) =>
        /\ oscillate(calc.arg + 2 * calc.pause + 2 * Unit, calc.pause).val = calc.ret
        /\ calc.arg = calc.pause => calc.ret = 0
        /\ calc.arg = calc.pause + Unit => calc.ret = Unit
        /\ calc.nested <= 1

C15_Witness ==
    /\ calc.fn = "oscillate" /\ calc.done
    /\ calc.pause = 0 /\ calc.arg = 14
    /\ calc.ret = 2 /\ calc.nested = 1

\* C16: every easing curve of the library returns exactly 0 at input 0 and
\* exactly 1 at input 1.
C16_CurveEndpoints ==
    (calc.fn \in CurveNames /\ calc.done) =>
        /\ calc.arg = Zero => IsZero(calc.ret)
        /\ calc.arg = One => IsOne(calc.ret)

C16_Witness ==
    /\ calc.fn = "in_expo" /\ calc.done
    /\ calc.arg = Zero /\ calc.ret = Zero

\* the primary axis read off the direction: index 1 of the source is 2 here
Axis == IF box.direction = "HORIZONTAL" THEN 2 ELSE 1
Cross == 3 - Axis

\* sum over the children before k of size[i] + 2 * spacing
RECURSIVE StepsBefore(_, _)
StepsBefore(k, i) ==
    IF k <= 1 THEN 0
    ELSE StepsBefore(k - 1, i) + kids[k - 1].size[i] + 2 * box.spacing

\* C17 as stated: the primary axis is index 1 for HORIZONTAL and 0 otherwise,
\* and under START child k is placed on it, from the container's top left, at
\* spacing plus the sum over the children before it of size + 2 * spacing.
C17_PlacementFromSpacing ==
    (PackedRender /\ box.packing = "START") =>
        \A k \in 1..Len(kids) :
            out.placed[k][Axis] = box.spacing + StepsBefore(k, Axis)

\* C17: the primary axis is index 1 for HORIZONTAL and 0 otherwise; the
\* accumulation starts from relPos = -spacing, so under START child k is
\* placed on the primary axis at the sum over the children before it of
\* size + 2 * spacing (the first child at 0, not at spacing); under START and
\* CENTER consecutive placements differ by the earlier child's size plus
\* 2 * spacing.
C17_PlacementFromZero ==
    /\ (PackedRender /\ box.packing = "START") =>
          \A k \in 1..Len(kids) : out.placed[k][Axis] = StepsBefore(k, Axis)
    /\ (PackedRender /\ box.packing \in {"START", "CENTER"}) =>
          \A k \in 1..(Len(kids) - 1) :
              out.placed[k + 1][Axis] - out.placed[k][Axis] =
                  kids[k].size[Axis] + 2 * box.spacing

C17_Witness ==
    /\ PackedRender /\ box.packing = "START" /\ box.direction = "HORIZONTAL"
    /\ box.spacing = 2 /\ Len(kids) = 2
    /\ kids[1].size = <<2, 4>>
    /\ out.placed[1][2] = 0 /\ out.placed[2][2] = 8

\* where C18 puts child k on the cross axis: inside the edge it is anchored
\* to, or at the centre
SameEdge(k) ==
    LET c == Cross
        low == IF c = 1 THEN "LEFT" ELSE "TOP"
        high == IF c = 1 THEN "RIGHT" ELSE "BOTTOM"
        inward == box.spacing + (kids[k].size[c] \div 2)
    IN  IF low \in kids[k].anchor THEN inward
        ELSE IF high \in kids[k].anchor THEN box.size[c] - inward
        ELSE box.size[c] \div 2

\* C18 as stated: under START, CENTER and END alike a child anchored to a
\* cross-axis edge is placed spacing + size[cross] / 2 inside that same edge,
\* and a child without a cross-axis anchor at the cross-axis centre.
C18_SameEdgeInEveryMode ==
    PackedRender =>
        \A k \in 1..Len(kids) : out.placed[k][Cross] = SameEdge(k)

\* C18: the cross-axis placement of a child depends on its cross-axis anchor
\* bits only.  Under START and CENTER a child anchored to a cross-axis edge
\* is placed spacing + size[cross] / 2 inside that edge and a child with no
\* cross-axis anchor at the centre; under END the placement is mirrored, so an
\* edge-anchored child lands that far inside the opposite edge.
C18_CrossAnchorHonored ==
    PackedRender =>
        \A k \in 1..Len(kids) :
            out.placed[k][Cross] =
                IF box.packing = "END" THEN box.size[Cross] - SameEdge(k)
                ELSE SameEdge(k)

C18_Witness ==
    /\ PackedRender /\ box.packing = "END" /\ box.direction = "HORIZONTAL"
    /\ box.size = <<16, 12>> /\ box.spacing = 1
    /\ kids[1].anchor = {"LEFT"} /\ kids[1].size = <<2, 4>>
    /\ out.placed[1][1] = 14

\* the locations of the placement loop, before the CENTER post-pass
LoopLocations == render_locations([box EXCEPT !.packing = "START"], kids).val

\* C19: a render under CENTER of any non-empty child list, children of equal
\* value included, succeeds and places every child at its location of the
\* placement loop shifted on the primary axis by (size[primary] - span) / 2,
\* span running from the first child's location to the far side of the last.
C19_CenterShift ==
    (out.op = "render" /\ box.packing = "CENTER" /\ kids # <<>>) =>
        /\ out.ok
        /\ LET i == Axis
               n == Len(kids)
               span == LoopLocations[n][i] + kids[n].size[i] - LoopLocations[1][i]
           IN  \A k \in 1..n :
                   out.placed[k] =
                       [LoopLocations[k] EXCEPT ![i] = @ + ((box.size[i] - span) \div 2)]

\* C20: under START, occupied_space() is the distance on the primary axis
\* from the container's leading edge to the far side of the last child as
\* render placed it, so the content overruns the container exactly when
\* occupied_space() exceeds the container's size on that axis.
C20_OccupiedSpaceIsExtent ==
    (/\ out.op = "occupied_space" /\ out.ok
     /\ box.packing = "START" /\ out.placed # <<>>) =>
        LET i == Axis
            n == Len(kids)
            extent == out.placed[n][i] + kids[n].size[i]
        IN  /\ out.space = extent
            /\ (extent > box.size[i]) <=> (out.space > box.size[i])

\* the side of child k nearer the origin on the primary axis, as rendered:
\* get_top_left of the child with the position and anchor its render ran with
RenderedLow(k) ==
    get_top_left([anchor |-> out.drawn[k].anchor,
                  position |-> out.drawn[k].position,
                  size |-> kids[k].size]).val[Axis]

RenderedHigh(k) == RenderedLow(k) + kids[k].size[Axis]

\* C21: in every packed mode the intervals two consecutive children cover on
\* the primary axis when rendered (position, packing anchor and size) do not
\* overlap.
C21_ConsecutiveDisjoint ==
    PackedRender =>
        \A k \in 1..(Len(kids) - 1) :
            \/ RenderedHigh(k) <= RenderedLow(k + 1)
            \/ RenderedHigh(k + 1) <= RenderedLow(k)

\* a rectangular grid of one row or one column with at least one item
SingleLine(its) ==
    /\ IsRect(its)
    /\ Len(its) >= 1 /\ Len(its[1]) >= 1
    /\ (Len(its) = 1 \/ Len(its[1]) = 1)

\* C22: make_grid on a rectangular grid of a single row or a single column
\* fails with a division by zero and leaves every item's parent and position
\* and the children list as they were.
C22_SingleLineFailsClean ==
    [][(gres'.op = "make_grid" /\ SingleLine(gres'.items))
       => /\ ~gres'.ok /\ gres'.err = "ZeroDivisionError"
          /\ children' = children
          /\ cells' = cells]_vars

\* C23: the output of a process the poller started is not lost.  Once the
\* process has ended, either a get() has returned its formatted output or the
\* poller still holds the process, so that a later get() can read it: no new
\* process is started in its place before it has been read.
C23_OutputNotDiscarded ==
    poller.command = "shell" =>
        \A p \in poller.exited : p = poller.process \/ p \in poller.read

====
